---- MODULE Spec2Model ----
(***************************************************************************)
(* Model of RemoteHomeCheckScorer (src/app.py): the questionnaire, the     *)
(* impact table, response validation, score calculation, tier              *)
(* classification, the care-plan advisor and the process_assessment flow.  *)
(*                                                                         *)
(* Python floats with one decimal are modelled as integers in tenths       *)
(* (insight_score 81.0 is 810); round(0.6*p + 0.4*m, 1) is computed from   *)
(* the hundredths 60*p + 40*m by round-half-even.                          *)
(***************************************************************************)
EXTENDS Integers, Sequences, FiniteSets, TLC

(***************************************************************************)
(* Bounds of the model.                                                    *)
(***************************************************************************)
\* How many questions of one ResponseSet may carry an option that is neither
\* the first nor the last of the question's option list.
MaxMiddle == 1

\* How many of the ten entries of a submitted responses mapping (the nine
\* questions and one unknown key) may deviate from "answered with the
\* question's first option": missing, not a permitted option, the last
\* option, or (for the unknown key) present.
MaxDeviations == 2

\* The largest insight score (in tenths) handed to get_insight_tier on its own.
MaxInsight == 1000

\* How many calculate_scores calls are made one after the other on the one
\* scorer.
MaxCalls == 3

\* How many calls run at the same time on the one scorer.
MaxThreads == 2

(***************************************************************************)
(* self.questions (name and options; the label is display text only).      *)
(***************************************************************************)
questions ==
  << [name |-> "fall_risk",
      options |-> <<"Low", "Moderate", "High">>],
     [name |-> "medication_adherence",
      options |-> <<"Excellent (95-100%)", "Good (80-94%)", "Fair (65-79%)", "Poor (Below 65%)">>],
     [name |-> "cognitive_function",
      options |-> <<"Normal (26-30)", "Mild Impairment (21-25)", "Moderate Impairment (10-20)", "Severe Impairment (0-9)">>],
     [name |-> "uti_risk",
      options |-> <<"Low Risk", "Moderate Risk", "High Risk">>],
     [name |-> "balance_test",
      options |-> <<"Excellent (45-56 seconds)", "Good (35-44 seconds)", "Fair (25-34 seconds)", "Poor (Below 25 seconds)">>],
     [name |-> "driving_safety",
      options |-> <<"Safe Driver", "Minor Concerns", "Major Concerns", "Unsafe to Drive">>],
     [name |-> "nighttime_movement",
      options |-> <<"Normal Patterns", "Slightly Increased", "Significantly Increased", "Concerning Patterns">>],
     [name |-> "social_engagement",
      options |-> <<"Highly Engaged", "Moderately Engaged", "Minimally Engaged", "Socially Isolated">>],
     [name |-> "toilet_flush_count",
      options |-> <<"Normal (6-8 times)", "Slightly Elevated (9-12 times)", "Elevated (13-16 times)", "Very High (17+ times)">>] >>

base_physical_score == 100

base_mental_score == 100

\* Impact with the two deltas exchanged.
Impact_swapped(p, m) == [physical |-> m, mental |-> p]

Impact(p, m) == [physical |-> p, mental |-> m]

(***************************************************************************)
(* self.event_impacts: question name -> option -> (physical, mental).      *)
(***************************************************************************)
event_impacts ==
  ( "fall_risk" :>
      ( "Low" :> Impact(0, 0) @@ "Moderate" :> Impact(-3, 0) @@ "High" :> Impact(-8, 0) ) ) @@
  ( "medication_adherence" :>
      ( "Excellent (95-100%)" :> Impact(0, 0) @@ "Good (80-94%)" :> Impact(0, 0) @@
        "Fair (65-79%)" :> Impact(-1, -1) @@ "Poor (Below 65%)" :> Impact(-2, -2) ) ) @@
  ( "cognitive_function" :>
      ( "Normal (26-30)" :> Impact(0, 0) @@ "Mild Impairment (21-25)" :> Impact(0, -1) @@
        "Moderate Impairment (10-20)" :> Impact(0, -3) @@ "Severe Impairment (0-9)" :> Impact(0, -5) ) ) @@
  ( "uti_risk" :>
      ( "Low Risk" :> Impact(0, 0) @@ "Moderate Risk" :> Impact(-2, 0) @@ "High Risk" :> Impact(-4, 0) ) ) @@
  ( "balance_test" :>
      ( "Excellent (45-56 seconds)" :> Impact(0, 0) @@ "Good (35-44 seconds)" :> Impact(0, 0) @@
        "Fair (25-34 seconds)" :> Impact(-1, 0) @@ "Poor (Below 25 seconds)" :> Impact(-2, 0) ) ) @@
  ( "driving_safety" :>
      ( "Safe Driver" :> Impact(0, 0) @@ "Minor Concerns" :> Impact(-1, 0) @@
        "Major Concerns" :> Impact(-2, 0) @@ "Unsafe to Drive" :> Impact(-3, 0) ) ) @@
  ( "nighttime_movement" :>
      ( "Normal Patterns" :> Impact(0, 0) @@ "Slightly Increased" :> Impact(0, 0) @@
        "Significantly Increased" :> Impact(-1, -1) @@ "Concerning Patterns" :> Impact(-2, -2) ) ) @@
  ( "social_engagement" :>
      ( "Highly Engaged" :> Impact(0, 0) @@ "Moderately Engaged" :> Impact(0, 0) @@
        "Minimally Engaged" :> Impact(0, -2) @@ "Socially Isolated" :> Impact(0, -4) ) ) @@
  ( "toilet_flush_count" :>
      ( "Normal (6-8 times)" :> Impact(0, 0) @@ "Slightly Elevated (9-12 times)" :> Impact(0, 0) @@
        "Elevated (13-16 times)" :> Impact(-1, 0) @@ "Very High (17+ times)" :> Impact(-2, 0) ) )

(***************************************************************************)
(* Small helpers standing for Python built-ins.                            *)
(***************************************************************************)
SeqToSet(s) == { s[i] : i \in 1..Len(s) }

Min2(a, b) == IF a < b THEN a ELSE b

Max2(a, b) == IF a > b THEN a ELSE b

\* round(x, 1) of a value given in hundredths, result in tenths
\* (Python 3 rounds a tie to the even neighbour).
Round1(hundredths) ==
  LET q == hundredths \div 10
      r == hundredths % 10
  IN  IF r > 5 \/ (r = 5 /\ q % 2 = 1) THEN q + 1 ELSE q

QuestionNames == { questions[i].name : i \in 1..Len(questions) }

OptionsOf(q_name) ==
  LET i == CHOOSE j \in 1..Len(questions) : questions[j].name = q_name
  IN  questions[i].options

(***************************************************************************)
(* Python values.  A dict is a function on its keys; where the code asks   *)
(* isinstance(v, dict) the value carries its type.                         *)
(***************************************************************************)
None == "None"

EmptyDict == [ k \in {} |-> None ]

Dict(items) == [ type |-> "dict", items |-> items ]

NotADict == [ type |-> "list", items |-> <<>> ]

isdict(v) == v.type = "dict"

Get(d, key, default) == IF key \in DOMAIN d THEN d[key] ELSE default

(***************************************************************************)
(* validate_responses(responses): one error per question that is missing   *)
(* or answered outside its options, in the order of self.questions; keys   *)
(* of responses that are no question name are never looked at.             *)
(***************************************************************************)
MissingResponse(q_name) == << "Missing response for", q_name >>

InvalidResponse(response, q_name) == << "Invalid response", response, "for", q_name >>

RECURSIVE ValidateFrom(_, _)
ValidateFrom(responses, i) ==
  IF i > Len(questions)
  THEN [ valid_responses |-> EmptyDict, errors |-> << >> ]
  ELSE LET rest   == ValidateFrom(responses, i + 1)
           q_name == questions[i].name
       IN  IF q_name \notin DOMAIN responses
           THEN [ valid_responses |-> rest.valid_responses,
                  errors |-> << MissingResponse(q_name) >> \o rest.errors ]
           ELSE IF responses[q_name] \notin SeqToSet(questions[i].options)
           THEN [ valid_responses |-> rest.valid_responses,
                  errors |-> << InvalidResponse(responses[q_name], q_name) >> \o rest.errors ]
           ELSE [ valid_responses |-> (q_name :> responses[q_name]) @@ rest.valid_responses,
                  errors |-> rest.errors ]

\* validate_responses that reports the first violation only.
validate_responses_first_only(responses) ==
  LET all == ValidateFrom(responses, 1)
  IN  [ valid_responses |-> all.valid_responses,
        errors |-> IF all.errors = << >> THEN << >> ELSE << Head(all.errors) >> ]

validate_responses(responses) == ValidateFrom(responses, 1)

(***************************************************************************)
(* validate_assessment_json(assessment_data).                              *)
(***************************************************************************)
required_fields == << "timestamp", "patient", "responses" >>

MissingField(field) == << "Missing required field", field >>

RECURSIVE RequiredFieldErrors(_, _)
RequiredFieldErrors(assessment_data, i) ==
  IF i > Len(required_fields) THEN << >>
  ELSE ( IF required_fields[i] \notin DOMAIN assessment_data
         THEN << MissingField(required_fields[i]) >> ELSE << >> )
       \o RequiredFieldErrors(assessment_data, i + 1)

PatientErrors(assessment_data) ==
  IF "patient" \notin DOMAIN assessment_data THEN << >>
  ELSE IF ~ isdict(assessment_data["patient"])
  THEN << << "Patient field must be a dictionary" >> >>
  ELSE IF "email" \notin DOMAIN assessment_data["patient"].items
  THEN << << "Missing patient email" >> >>
  ELSE << >>

ResponsesErrors(assessment_data) ==
  IF "responses" \notin DOMAIN assessment_data THEN << >>
  ELSE IF ~ isdict(assessment_data["responses"])
  THEN << << "Responses field must be a dictionary" >> >>
  ELSE validate_responses(assessment_data["responses"].items).errors

validate_assessment_json(assessment_data) ==
  RequiredFieldErrors(assessment_data, 1)
    \o PatientErrors(assessment_data)
    \o ResponsesErrors(assessment_data)

(***************************************************************************)
(* get_insight_tier(score), score in tenths.                               *)
(***************************************************************************)
\* get_insight_tier with strict comparisons.
get_insight_tier_strict(score) ==
  IF score > 900 THEN "Independent"
  ELSE IF score > 700 THEN "Monitor"
  ELSE IF score > 500 THEN "Assist"
  ELSE "Intervene"

get_insight_tier(score) ==
  IF score >= 900 THEN "Independent"
  ELSE IF score >= 700 THEN "Monitor"
  ELSE IF score >= 500 THEN "Assist"
  ELSE "Intervene"

(***************************************************************************)
(* get_care_plan_suggestion(tier, previous_tier).  None is Python's None;  *)
(* `if previous_tier` is false for None.                                   *)
(***************************************************************************)
Tiers == { "Independent", "Monitor", "Assist", "Intervene" }

suggestions ==
  ( "Independent" :> "Resume standard monitoring; schedule motivational check-in and goal-setting session" ) @@
  ( "Monitor" :> "Conduct comprehensive medication reconciliation; recommend a daytime activity or exercise program" ) @@
  ( "Assist" :> "Arrange part-time home-care aide (e.g., 12h/week); review medication-adherence log" ) @@
  ( "Intervene" :> "Recommend car-key removal; seek a senior-living community or arrange for a full-time in-home provider; enrol in fall-prevention PT" )

BalanceAssessmentText == "Schedule balance & home-safety assessment; brief caregiver check-in"

PhysicalTherapyText == "Initiate physical-therapy evaluation; schedule telehealth PCP visit within 72h"

CareConferenceText == "Convene multidisciplinary care conference (PCP, PT/OT, social worker); consider long-term-care placement"

SuggestionsGet(tier) ==
  IF tier \in DOMAIN suggestions THEN suggestions[tier] ELSE "No specific recommendation"

\* get_care_plan_suggestion whose Assist rule forgets to look at previous_tier.
get_care_plan_suggestion_any_previous(tier, previous_tier) ==
  IF previous_tier # None /\ tier # previous_tier
  THEN IF tier = "Monitor" /\ previous_tier = "Independent"
       THEN BalanceAssessmentText
       ELSE IF tier = "Assist"
       THEN PhysicalTherapyText
       ELSE IF tier = "Intervene"
       THEN CareConferenceText
       ELSE SuggestionsGet(tier)
  ELSE SuggestionsGet(tier)

get_care_plan_suggestion(tier, previous_tier) ==
  IF previous_tier # None /\ tier # previous_tier
  THEN IF tier = "Monitor" /\ previous_tier = "Independent"
       THEN BalanceAssessmentText
       ELSE IF tier = "Assist" /\ previous_tier \in { "Independent", "Monitor" }
       THEN PhysicalTherapyText
       ELSE IF tier = "Intervene"
       THEN CareConferenceText
       ELSE SuggestionsGet(tier)
  ELSE SuggestionsGet(tier)

(***************************************************************************)
(* The fields of the scorer that calculate_scores reads, as __init__ sets  *)
(* them.  There is one scorer, created once when the module is loaded.     *)
(***************************************************************************)
NewScorer ==
  [ base_physical_score |-> base_physical_score,
    base_mental_score   |-> base_mental_score,
    event_impacts       |-> event_impacts ]

VARIABLE scorer

(***************************************************************************)
(* calculate_scores(responses).  The loop over responses.items() adds the  *)
(* impact of every entry whose question and option are both keys of        *)
(* self.event_impacts; integer addition makes the iteration order          *)
(* irrelevant.  The method reads the scorer's fields and writes none.      *)
(***************************************************************************)
IsResolvable(impacts, question_name, response) ==
  question_name \in DOMAIN impacts /\ response \in DOMAIN impacts[question_name]

ResolvableIn(impacts, responses) ==
  { q \in DOMAIN responses : IsResolvable(impacts, q, responses[q]) }

Resolvable(responses) == ResolvableIn(scorer.event_impacts, responses)

RECURSIVE SumImpactsIn(_, _, _, _)
SumImpactsIn(impacts, responses, names, field) ==
  IF names = {} THEN 0
  ELSE LET q == CHOOSE n \in names : TRUE
       IN  impacts[q][responses[q]][field]
             + SumImpactsIn(impacts, responses, names \ {q}, field)

SumImpacts(responses, names, field) ==
  SumImpactsIn(scorer.event_impacts, responses, names, field)

Clamp(score) == Max2(0, Min2(100, score))

\* InsightScore with the two weights exchanged.
InsightScore_swapped_weights(physical_score, mental_score) ==
  Round1(40 * physical_score + 60 * mental_score)

InsightScore(physical_score, mental_score) ==
  Round1(60 * physical_score + 40 * mental_score)

\* Lines 216-228: the result built from the base scores and the summed deltas.
ScoreResult(physical_base, mental_base, physical_delta, mental_delta) ==
  LET physical_score == Clamp(physical_base + physical_delta)
      mental_score   == Clamp(mental_base + mental_delta)
      insight_score  == InsightScore(physical_score, mental_score)
  IN  [ physical_score |-> physical_score,
        mental_score   |-> mental_score,
        insight_score  |-> insight_score,
        tier           |-> get_insight_tier(insight_score),
        physical_delta |-> physical_delta,
        mental_delta   |-> mental_delta ]

\* calculate_scores whose result carries the raw deltas in the score fields.
calculate_scores_delta_fields(responses) ==
  LET physical_delta == SumImpacts(responses, Resolvable(responses), "physical")
      mental_delta   == SumImpacts(responses, Resolvable(responses), "mental")
      physical_score == Clamp(scorer.base_physical_score + physical_delta)
      mental_score   == Clamp(scorer.base_mental_score + mental_delta)
      insight_score  == InsightScore(physical_score, mental_score)
  IN  [ physical_score |-> physical_delta,
        mental_score   |-> mental_delta,
        insight_score  |-> insight_score,
        tier           |-> get_insight_tier(insight_score),
        physical_delta |-> physical_delta,
        mental_delta   |-> mental_delta ]

\* calculate_scores that charges one point for every entry it cannot resolve.
calculate_scores_penalty(responses) ==
  LET unresolved == Cardinality(DOMAIN responses \ Resolvable(responses))
  IN  ScoreResult(
        scorer.base_physical_score, scorer.base_mental_score,
        SumImpacts(responses, Resolvable(responses), "physical") - unresolved,
        SumImpacts(responses, Resolvable(responses), "mental") - unresolved)

\* calculate_scores(self, responses) for a scorer with the fields of self.
calculate_scores_on(self, responses) ==
  ScoreResult(
    self.base_physical_score, self.base_mental_score,
    SumImpactsIn(self.event_impacts, responses,
                 ResolvableIn(self.event_impacts, responses), "physical"),
    SumImpactsIn(self.event_impacts, responses,
                 ResolvableIn(self.event_impacts, responses), "mental"))

calculate_scores(responses) == calculate_scores_on(scorer, responses)

(***************************************************************************)
(* State.                                                                  *)
(***************************************************************************)
VARIABLES
  pc,               \* where the run stands
  scores,           \* the ScoreResult of the latest calculate_scores call
  \* the scoring engine called on its own
  responses,        \* the ResponseSet handed to calculate_scores
  baseline,         \* the ScoreResult of the call before the latest one
  \* the tier classifier and the care-plan advisor called on their own
  insight,          \* the score (tenths) handed to get_insight_tier
  tier,             \* what get_insight_tier returned
  previous_tier,    \* the previous tier handed to get_care_plan_suggestion
  suggestion,       \* what get_care_plan_suggestion returned
  \* process_assessment
  assessment_data,  \* the submitted assessment
  smtp_configured,  \* self.smtp_config has server, port, username and password
  valid_responses,  \* what validate_responses kept
  email_sent,       \* what send_email returned
  result,           \* what process_assessment returned
  engine_calls,     \* the ResponseSets calculate_scores was invoked with
  json_files,       \* data/assessments/<id>.json
  csv_files,        \* data/assessments/<id>.csv
  master_csv,       \* the rows of data/all_assessments.csv
  pdf_files,        \* data/reports/<id>.pdf
  emails,           \* the messages handed to the SMTP server
  uuid_count,       \* how many uuid4() identifiers were drawn
  \* calls on the one scorer, one after the other or interleaved
  engine_returns,   \* what each call of engine_calls returned
  threads           \* the calls in progress: position, arguments, locals

engineVars == << responses, baseline >>

advisorVars == << insight, tier, previous_tier, suggestion >>

storeVars == << json_files, csv_files, master_csv, pdf_files, emails >>

flowVars ==
  << assessment_data, smtp_configured, valid_responses, email_sent, result,
     engine_calls, storeVars, uuid_count >>

callVars == << engine_returns, threads >>

vars == << pc, scores, scorer, engineVars, advisorVars, flowVars, callVars >>

EngineIdle ==
  /\ responses = None
  /\ baseline = None

AdvisorIdle ==
  /\ insight = None
  /\ tier = None
  /\ previous_tier = None
  /\ suggestion = None

FlowIdle ==
  /\ assessment_data = None
  /\ smtp_configured = FALSE
  /\ valid_responses = None
  /\ email_sent = None
  /\ result = None
  /\ engine_calls = << >>
  /\ json_files = {}
  /\ csv_files = {}
  /\ master_csv = << >>
  /\ pdf_files = {}
  /\ emails = {}
  /\ uuid_count = 0

CallIdle ==
  /\ engine_returns = << >>
  /\ threads = << >>

(***************************************************************************)
(* The ResponseSets the scoring specification draws from: any subset of    *)
(* the nine questions, each answered with a permitted option, at most      *)
(* MaxMiddle of them with an option other than the first or the last.      *)
(***************************************************************************)
IsMiddle(q_name, option) ==
  /\ option # OptionsOf(q_name)[1]
  /\ option # OptionsOf(q_name)[Len(OptionsOf(q_name))]

MiddleCount(r) == Cardinality({ q \in DOMAIN r : IsMiddle(q, r[q]) })

RECURSIVE ResponseSetsOver(_)
ResponseSetsOver(n) ==
  IF n = 0 THEN { EmptyDict }
  ELSE LET shorter  == ResponseSetsOver(n - 1)
           question == questions[n]
           extended == { r @@ (question.name :> o) :
                           r \in shorter, o \in SeqToSet(question.options) }
       IN  shorter \cup { r \in extended : MiddleCount(r) <= MaxMiddle }

KnownResponseSets == ResponseSetsOver(Len(questions))

InitScore ==
  /\ scorer = NewScorer
  /\ CallIdle
  /\ responses \in KnownResponseSets
  /\ scores = None
  /\ baseline = None
  /\ pc = "start"
  /\ AdvisorIdle
  /\ FlowIdle

CalculateScores ==
  /\ pc = "start"
  /\ scores' = calculate_scores(responses)
  /\ pc' = "scored"
  /\ UNCHANGED << scorer, callVars, responses, baseline, advisorVars, flowVars >>

(***************************************************************************)
(* Entries calculate_scores cannot resolve: a question name that is no key *)
(* of event_impacts, or an option that is no key of the question's         *)
(* sub-table.  "Low" is a key of the fall_risk sub-table only.             *)
(***************************************************************************)
UnknownQuestions == { "shoe_size" }

UnknownOptions == { "Low", "Not sure" }

UnresolvableEntries(r) ==
  { e \in (QuestionNames \cup UnknownQuestions) \X UnknownOptions :
      /\ e[1] \notin DOMAIN r
      /\ \/ e[1] \notin DOMAIN event_impacts
         \/ e[2] \notin DOMAIN event_impacts[e[1]] }

\* calculate_scores is called again with the same ResponseSet plus one
\* entry it cannot resolve.
CalculateScoresWithUnresolvable ==
  /\ pc = "scored"
  /\ \E e \in UnresolvableEntries(responses) :
       /\ responses' = responses @@ (e[1] :> e[2])
       /\ baseline' = scores
       /\ scores' = calculate_scores(responses')
  /\ pc' = "rescored"
  /\ UNCHANGED << scorer, callVars, advisorVars, flowVars >>

NextScore == CalculateScores \/ CalculateScoresWithUnresolvable

SpecScore == InitScore /\ [][NextScore]_vars

(***************************************************************************)
(* The tier classifier and the care-plan advisor on their own: every score *)
(* from 0.0 to MaxInsight/10 in steps of 0.1, then every previous tier.    *)
(***************************************************************************)
InitAdvisor ==
  /\ scorer = NewScorer
  /\ CallIdle
  /\ insight \in 0..MaxInsight
  /\ tier = None
  /\ previous_tier = None
  /\ suggestion = None
  /\ pc = "start"
  /\ scores = None
  /\ EngineIdle
  /\ FlowIdle

GetInsightTier ==
  /\ pc = "start"
  /\ tier' = get_insight_tier(insight)
  /\ pc' = "classified"
  /\ UNCHANGED << scorer, callVars, insight, previous_tier, suggestion, scores, engineVars, flowVars >>

GetCarePlanSuggestion ==
  /\ pc = "classified"
  /\ \E previous \in Tiers \cup { None } :
       /\ previous_tier' = previous
       /\ suggestion' = get_care_plan_suggestion(tier, previous)
  /\ pc' = "advised"
  /\ UNCHANGED << scorer, callVars, insight, tier, scores, engineVars, flowVars >>

NextAdvisor == GetInsightTier \/ GetCarePlanSuggestion

SpecAdvisor == InitAdvisor /\ [][NextAdvisor]_vars

(***************************************************************************)
(* The assessments submitted to process_assessment.  The responses mapping *)
(* holds, for each question and for one unknown key, one of: the first     *)
(* option, the last option, an option that is not permitted, or nothing;   *)
(* at most MaxDeviations entries differ from "first option" (or, for the   *)
(* unknown key, from "absent").                                            *)
(***************************************************************************)
InvalidOption == "Not sure"

RECURSIVE SubmittedOver(_)
\* pairs << mapping over the first n questions, number of deviations >>
SubmittedOver(n) ==
  IF n = 0 THEN { << EmptyDict, 0 >> }
  ELSE LET shorter  == SubmittedOver(n - 1)
           question == questions[n]
           last     == question.options[Len(question.options)]
       IN  { << p[1] @@ (question.name :> question.options[1]), p[2] >> : p \in shorter }
             \cup { << p[1], p[2] + 1 >> : p \in { x \in shorter : x[2] < MaxDeviations } }
             \cup { << p[1] @@ (question.name :> o), p[2] + 1 >> :
                      p \in { x \in shorter : x[2] < MaxDeviations },
                      o \in { last, InvalidOption } }

SubmittedResponses ==
  { p[1] : p \in SubmittedOver(Len(questions)) }
    \cup { p[1] @@ (u :> o) :
             p \in { x \in SubmittedOver(Len(questions)) : x[2] < MaxDeviations },
             u \in UnknownQuestions, o \in { "Low" } }

PatientValues ==
  { NotADict, Dict(EmptyDict) }
    \cup { Dict("email" :> "patient@example.org") }
    \cup { Dict(("email" :> "patient@example.org") @@ ("previous_tier" :> t)) : t \in Tiers }

ResponsesValues == { NotADict } \cup { Dict(r) : r \in SubmittedResponses }

\* The mappings with one value of each given set, or no entry, under the key.
WithOptional(dicts, key, values) ==
  dicts \cup { d @@ (key :> v) : d \in dicts, v \in values }

Assessments ==
  WithOptional(
    WithOptional(
      WithOptional(
        WithOptional({ EmptyDict }, "timestamp", { "2025-01-01T09:00:00" }),
        "assessment_id", { "client-id" }),
      "patient", PatientValues),
    "responses", ResponsesValues)

Init ==
  /\ scorer = NewScorer
  /\ CallIdle
  /\ assessment_data \in Assessments
  /\ smtp_configured \in BOOLEAN
  /\ pc = "validate"
  /\ scores = None
  /\ valid_responses = None
  /\ email_sent = None
  /\ result = None
  /\ engine_calls = << >>
  /\ json_files = {}
  /\ csv_files = {}
  /\ master_csv = << >>
  /\ pdf_files = {}
  /\ emails = {}
  /\ uuid_count = 0
  /\ EngineIdle
  /\ AdvisorIdle

(***************************************************************************)
(* process_assessment, one action per call it makes.  An exception raised  *)
(* by a collaborator is caught by the handler at the end, which returns    *)
(* the "Processing failed" result.                                         *)
(***************************************************************************)
\* str(uuid.uuid4()): the n-th identifier generated in a run.  Generated
\* identifiers differ from each other and from what a client submits.
Uuid(n) == << "uuid-1", "uuid-2", "uuid-3" >>[n]

ProcessingFailed(message) == [ error |-> "Processing failed", details |-> message ]

Patient == assessment_data["patient"].items

\* Lines 467-482: both validations; nothing else has run yet.
Validate ==
  /\ pc = "validate"
  /\ LET errors == validate_assessment_json(assessment_data)
     IN  IF errors # << >>
         THEN /\ result' = [ error |-> "Invalid assessment data", details |-> errors ]
              /\ pc' = "done"
              /\ UNCHANGED valid_responses
         ELSE LET checked == validate_responses(assessment_data["responses"].items)
              IN  IF checked.errors # << >>
                  THEN /\ result' = [ error |-> "Invalid responses", details |-> checked.errors ]
                       /\ pc' = "done"
                       /\ UNCHANGED valid_responses
                  ELSE /\ valid_responses' = checked.valid_responses
                       /\ pc' = "calculate"
                       /\ UNCHANGED result
  /\ UNCHANGED << scorer, callVars, scores, engineVars, advisorVars, assessment_data, smtp_configured,
                  email_sent, engine_calls, storeVars, uuid_count >>

\* process_assessment that scores the submitted mapping instead of valid_responses.
Calculate_submitted ==
  /\ pc = "calculate"
  /\ scores' = calculate_scores(assessment_data["responses"].items)
  /\ engine_calls' = Append(engine_calls, assessment_data["responses"].items)
  /\ pc' = "save_json"
  /\ UNCHANGED << scorer, callVars, engineVars, advisorVars, assessment_data, smtp_configured,
                  valid_responses, email_sent, result, storeVars, uuid_count >>

\* Line 485.
Calculate ==
  /\ pc = "calculate"
  /\ scores' = calculate_scores(valid_responses)
  /\ engine_calls' = Append(engine_calls, valid_responses)
  /\ pc' = "save_json"
  /\ UNCHANGED << scorer, callVars, engineVars, advisorVars, assessment_data, smtp_configured,
                  valid_responses, email_sent, result, storeVars, uuid_count >>

\* save_assessment_json that writes the identifier, the scores and the
\* timestamp into the caller's assessment_data instead of a copy.
SaveJson_in_place ==
  /\ pc = "save_json"
  /\ uuid_count' = uuid_count + 1
  /\ assessment_data' = ("assessment_id" :> Uuid(uuid_count + 1))
                          @@ ("scores" :> scores)
                          @@ ("processed_at" :> "now")
                          @@ assessment_data
  /\ \E written \in BOOLEAN :
       IF written
       THEN /\ json_files' = json_files \cup
                 { [ assessment_id |-> Uuid(uuid_count + 1),
                     data          |-> assessment_data,
                     scores        |-> scores ] }
            /\ pc' = "save_csv"
            /\ UNCHANGED result
       ELSE /\ result' = ProcessingFailed("json write failed")
            /\ pc' = "done"
            /\ UNCHANGED json_files
  /\ UNCHANGED << scorer, callVars, scores, engineVars, advisorVars, smtp_configured,
                  valid_responses, email_sent, engine_calls,
                  csv_files, master_csv, pdf_files, emails >>

\* save_assessment_json that only prints a failed write, so that
\* process_assessment goes on to save_to_csv without a JSON record.
SaveJson_swallows_failure ==
  /\ pc = "save_json"
  /\ uuid_count' = uuid_count + 1
  /\ \E written \in BOOLEAN :
       json_files' = IF written
                     THEN json_files \cup
                            { [ assessment_id |-> Uuid(uuid_count + 1),
                                data          |-> assessment_data,
                                scores        |-> scores ] }
                     ELSE json_files
  /\ pc' = "save_csv"
  /\ UNCHANGED << scorer, callVars, scores, engineVars, advisorVars, assessment_data, smtp_configured,
                  valid_responses, email_sent, result, engine_calls,
                  csv_files, master_csv, pdf_files, emails >>

\* Line 488, save_assessment_json: a copy of the assessment with a fresh
\* identifier and the scores is written, or the write raises.
SaveJson ==
  /\ pc = "save_json"
  /\ uuid_count' = uuid_count + 1
  /\ \E written \in BOOLEAN :
       IF written
       THEN /\ json_files' = json_files \cup
                 { [ assessment_id |-> Uuid(uuid_count + 1),
                     data          |-> assessment_data,
                     scores        |-> scores ] }
            /\ pc' = "save_csv"
            /\ UNCHANGED result
       ELSE /\ result' = ProcessingFailed("json write failed")
            /\ pc' = "done"
            /\ UNCHANGED json_files
  /\ UNCHANGED << scorer, callVars, scores, engineVars, advisorVars, assessment_data, smtp_configured,
                  valid_responses, email_sent, engine_calls,
                  csv_files, master_csv, pdf_files, emails >>

\* The row save_to_csv builds: its own fresh identifier, the scores and the
\* answer to each question ("" where there is none).
CsvRow(id) ==
  [ assessment_id |-> id,
    scores        |-> scores,
    answers       |-> [ q \in QuestionNames |->
                          Get(assessment_data["responses"].items, q, "") ] ]

\* Line 489, save_to_csv: the individual file is written or the write
\* raises; a failure to append to the master file is only printed.
SaveCsv ==
  /\ pc = "save_csv"
  /\ uuid_count' = uuid_count + 1
  /\ \E written \in BOOLEAN :
       IF written
       THEN /\ csv_files' = csv_files \cup { CsvRow(Uuid(uuid_count + 1)) }
            /\ \E appended \in BOOLEAN :
                 master_csv' = IF appended
                               THEN Append(master_csv, CsvRow(Uuid(uuid_count + 1)))
                               ELSE master_csv
            /\ pc' = "generate_pdf"
            /\ UNCHANGED result
       ELSE /\ result' = ProcessingFailed("csv write failed")
            /\ pc' = "done"
            /\ UNCHANGED << csv_files, master_csv >>
  /\ UNCHANGED << scorer, callVars, scores, engineVars, advisorVars, assessment_data, smtp_configured,
                  valid_responses, email_sent, engine_calls,
                  json_files, pdf_files, emails >>

\* Line 492, generate_pdf: the report is named after the assessment's own
\* assessment_id, or the identifier generated in this call (the n-th of the
\* run) when it has none.
ReportFile(n) == Get(assessment_data, "assessment_id", Uuid(n))

\* process_assessment that removes the records already written when
\* generate_pdf raises.
GeneratePdf_rollback ==
  /\ pc = "generate_pdf"
  /\ uuid_count' = uuid_count + 1
  /\ \E written \in BOOLEAN :
       IF written
       THEN /\ pdf_files' = pdf_files \cup
                 { [ file       |-> ReportFile(uuid_count + 1),
                     scores     |-> scores,
                     suggestion |-> get_care_plan_suggestion(
                                      scores.tier, Get(Patient, "previous_tier", None)) ] }
            /\ pc' = "send_email"
            /\ UNCHANGED << result, json_files, csv_files >>
       ELSE /\ result' = ProcessingFailed("pdf output failed")
            /\ pc' = "done"
            /\ json_files' = {}
            /\ csv_files' = {}
            /\ UNCHANGED pdf_files
  /\ UNCHANGED << scorer, callVars, scores, engineVars, advisorVars, assessment_data, smtp_configured,
                  valid_responses, email_sent, engine_calls, master_csv, emails >>

GeneratePdf ==
  /\ pc = "generate_pdf"
  /\ uuid_count' = uuid_count + 1
  /\ \E written \in BOOLEAN :
       IF written
       THEN /\ pdf_files' = pdf_files \cup
                 { [ file       |-> ReportFile(uuid_count + 1),
                     scores     |-> scores,
                     suggestion |-> get_care_plan_suggestion(
                                      scores.tier, Get(Patient, "previous_tier", None)) ] }
            /\ pc' = "send_email"
            /\ UNCHANGED result
       ELSE /\ result' = ProcessingFailed("pdf output failed")
            /\ pc' = "done"
            /\ UNCHANGED pdf_files
  /\ UNCHANGED << scorer, callVars, scores, engineVars, advisorVars, assessment_data, smtp_configured,
                  valid_responses, email_sent, engine_calls,
                  json_files, csv_files, master_csv, emails >>

\* The message send_email builds from the body process_assessment wrote.
Message(attached) ==
  [ to         |-> Patient["email"],
    scores     |-> scores,
    suggestion |-> get_care_plan_suggestion(
                     scores.tier, Get(Patient, "previous_tier", None)),
    attachment |-> attached ]

\* What can happen inside the try block of send_email: everything works;
\* an exception before sendmail; an exception after it (server.quit()).
SmtpOutcomes == { "sent", "failed", "sent, then failed" }

\* send_email that lets an SMTP exception escape to process_assessment.
SendEmail_raises ==
  /\ pc = "send_email"
  /\ IF ~ smtp_configured
     THEN /\ email_sent' = FALSE
          /\ pc' = "return"
          /\ UNCHANGED << emails, result >>
     ELSE \E attached \in BOOLEAN, outcome \in SmtpOutcomes :
            /\ emails' = IF outcome = "failed" THEN emails
                         ELSE emails \cup { Message(attached) }
            /\ IF outcome = "sent"
               THEN /\ email_sent' = TRUE
                    /\ pc' = "return"
                    /\ UNCHANGED result
               ELSE /\ result' = ProcessingFailed("smtp error")
                    /\ pc' = "done"
                    /\ UNCHANGED email_sent
  /\ UNCHANGED << scorer, callVars, scores, engineVars, advisorVars, assessment_data, smtp_configured,
                  valid_responses, engine_calls,
                  json_files, csv_files, master_csv, pdf_files, uuid_count >>

\* Lines 495-516, send_email: False when SMTP is not configured; otherwise
\* the message is built (the in-memory PDF is attached when it could be
\* generated) and sent, and any exception on the way gives False.
SendEmail ==
  /\ pc = "send_email"
  /\ IF ~ smtp_configured
     THEN /\ email_sent' = FALSE
          /\ UNCHANGED emails
     ELSE \E attached \in BOOLEAN, outcome \in SmtpOutcomes :
            /\ email_sent' = (outcome = "sent")
            /\ emails' = IF outcome = "failed" THEN emails
                         ELSE emails \cup { Message(attached) }
  /\ pc' = "return"
  /\ UNCHANGED << scorer, callVars, scores, engineVars, advisorVars, assessment_data, smtp_configured,
                  valid_responses, result, engine_calls,
                  json_files, csv_files, master_csv, pdf_files, uuid_count >>

\* Lines 518-524.
Return ==
  /\ pc = "return"
  /\ result' = [ success       |-> TRUE,
                 email_sent    |-> email_sent,
                 assessment_id |-> Get(assessment_data, "assessment_id", None),
                 scores        |-> scores,
                 pdf_file      |-> ReportFile(uuid_count) ]
  /\ pc' = "done"
  /\ UNCHANGED << scorer, callVars, scores, engineVars, advisorVars, assessment_data, smtp_configured,
                  valid_responses, email_sent, engine_calls, storeVars, uuid_count >>

Next ==
  \/ Validate
  \/ Calculate
  \/ SaveJson
  \/ SaveCsv
  \/ GeneratePdf
  \/ SendEmail
  \/ Return

Spec == Init /\ [][Next]_vars

(***************************************************************************)
(* Properties of the scoring engine (SpecScore).                           *)
(***************************************************************************)
Scored == pc \in { "scored", "rescored" }

\* The option of a question with the largest total impact.
HighestImpactOption(q_name) ==
  CHOOSE o \in DOMAIN event_impacts[q_name] :
    \A other \in DOMAIN event_impacts[q_name] :
      event_impacts[q_name][o].physical + event_impacts[q_name][o].mental
        <= event_impacts[q_name][other].physical + event_impacts[q_name][other].mental

WorstCaseResponses == [ q \in QuestionNames |-> HighestImpactOption(q) ]

WorstCaseScored == pc = "scored" /\ responses = WorstCaseResponses

\* C1 as stated: the worst-case ResponseSet (every question answered with
\* its highest-impact option) is clamped to physical_score = 0,
\* mental_score = 0, insight_score = 0.0 and tier Intervene.
C1_WorstCaseClampedToZero ==
  WorstCaseScored =>
    /\ scores.physical_score = 0
    /\ scores.mental_score = 0
    /\ scores.insight_score = 0
    /\ scores.tier = "Intervene"

\* C1 amended: the worst-case ResponseSet yields physical_delta = -23 and
\* mental_delta = -13, so without any clamping physical_score = 77,
\* mental_score = 87, insight_score = 81.0 and tier Monitor.
C1_WorstCaseScores ==
  WorstCaseScored =>
    /\ scores.physical_delta = -23
    /\ scores.mental_delta = -13
    /\ scores.physical_score = 77
    /\ scores.mental_score = 87
    /\ scores.insight_score = 810
    /\ scores.tier = "Monitor"

C1_Witness == WorstCaseScored

\* C3: for every ResponseSet of known (question, option) pairs, the
\* physical_score and mental_score of the result are integers in 0..100.
C3_ScoresInRange ==
  pc = "scored" =>
    /\ scores.physical_score \in 0..100
    /\ scores.mental_score \in 0..100

C3_Witness ==
  /\ pc = "scored"
  /\ DOMAIN responses # QuestionNames
  /\ DOMAIN responses # {}
  /\ scores.physical_score < 100
  /\ scores.mental_score < 100

\* C5: insight_score is 0.6 * physical_score + 0.4 * mental_score to one
\* decimal, that is 10 * insight_score = 6 * physical_score + 4 * mental_score,
\* and the tier of the result is the tier of that insight_score.
C5_InsightIsWeightedSum ==
  Scored =>
    /\ scores.insight_score = 6 * scores.physical_score + 4 * scores.mental_score
    /\ scores.tier = get_insight_tier(scores.insight_score)

C5_Witness ==
  /\ pc = "scored"
  /\ scores.physical_score # scores.mental_score
  /\ scores.insight_score % 10 # 0

\* C6: an entry whose question is no key of event_impacts, or whose option
\* is no key of the question's sub-table, contributes nothing:
\* calculate_scores of the ResponseSet plus that entry returns the result
\* it returned for the ResponseSet alone.
C6_UnresolvableContributesZero ==
  pc = "rescored" => scores = baseline

C6_Witness ==
  /\ pc = "rescored"
  /\ baseline.physical_delta < 0
  /\ \E q \in DOMAIN responses :
       q \in DOMAIN event_impacts /\ responses[q] \notin DOMAIN event_impacts[q]

(***************************************************************************)
(* Properties of the tier classifier and the care-plan advisor             *)
(* (SpecAdvisor).                                                          *)
(***************************************************************************)
\* The priority-ordered rule list: the per-tier default when there is no
\* previous tier or it equals the tier, otherwise the first rule that matches.
RuleListAdvice(t, previous) ==
  IF previous = None \/ previous = t THEN suggestions[t]
  ELSE IF t = "Intervene" THEN CareConferenceText
  ELSE IF t = "Assist" /\ previous \in { "Independent", "Monitor" } THEN PhysicalTherapyText
  ELSE IF t = "Monitor" /\ previous = "Independent" THEN BalanceAssessmentText
  ELSE suggestions[t]

\* C2: for every tier and every previous tier (or none),
\* get_care_plan_suggestion returns a non-empty string, the one the
\* priority-ordered rule list gives.
C2_AdviceFollowsRuleList ==
  pc = "advised" =>
    /\ suggestion # ""
    /\ suggestion = RuleListAdvice(tier, previous_tier)

C2_Witness ==
  /\ pc = "advised"
  /\ tier = "Intervene"
  /\ previous_tier = "Monitor"
  /\ suggestion = CareConferenceText

\* C4: get_insight_tier is a step function with lower-inclusive bands:
\* Independent iff score >= 90, Monitor iff 70 <= score < 90,
\* Assist iff 50 <= score < 70, Intervene iff score < 50.
C4_TierBands ==
  pc \in { "classified", "advised" } =>
    /\ tier = "Independent" <=> insight >= 900
    /\ tier = "Monitor" <=> (700 <= insight /\ insight < 900)
    /\ tier = "Assist" <=> (500 <= insight /\ insight < 700)
    /\ tier = "Intervene" <=> insight < 500

C4_Witness ==
  /\ pc = "classified"
  /\ insight = 700
  /\ tier = "Monitor"

(***************************************************************************)
(* Properties of process_assessment (Spec).                                *)
(***************************************************************************)
HasResponses ==
  /\ "responses" \in DOMAIN assessment_data
  /\ isdict(assessment_data["responses"])

Submitted == assessment_data["responses"].items

Validated == pc # "validate"

ReturnedError == pc = "done" /\ "error" \in DOMAIN result

ReturnedSuccess == pc = "done" /\ "success" \in DOMAIN result

\* C7 as stated: a responses mapping with a key that is none of the nine
\* question names is rejected: validation ends the run with an error.
C7_UnknownKeyRejected ==
  (Validated /\ HasResponses /\ DOMAIN Submitted \ QuestionNames # {}) =>
    /\ ReturnedError
    /\ result.error \in { "Invalid assessment data", "Invalid responses" }

\* The questions a responses mapping violates: missing, or answered with
\* an option outside the question's list.
Violating(r) ==
  { q \in QuestionNames : q \notin DOMAIN r \/ r[q] \notin SeqToSet(OptionsOf(q)) }

ExpectedErrors(r) ==
  { IF q \in DOMAIN r THEN InvalidResponse(r[q], q) ELSE MissingResponse(q) :
      q \in Violating(r) }

\* C8: validate_responses returns exactly one error for each question
\* that is missing or answered outside its options, and the error result
\* of process_assessment carries all of them in its details.
C8_EveryViolationListed ==
  HasResponses =>
    /\ Len(validate_responses(Submitted).errors) = Cardinality(Violating(Submitted))
    /\ SeqToSet(validate_responses(Submitted).errors) = ExpectedErrors(Submitted)
    /\ (Validated /\ Violating(Submitted) # {}) =>
         /\ ReturnedError
         /\ ExpectedErrors(Submitted) \subseteq SeqToSet(result.details)

C8_Witness ==
  /\ HasResponses
  /\ ReturnedError
  /\ Cardinality(Violating(Submitted)) = 2
  /\ \E q \in Violating(Submitted) : q \in DOMAIN Submitted
  /\ \E q \in Violating(Submitted) : q \notin DOMAIN Submitted

CompleteAndPermitted(r) ==
  /\ DOMAIN r = QuestionNames
  /\ \A q \in QuestionNames : r[q] \in SeqToSet(OptionsOf(q))

NothingDone ==
  /\ scores = None
  /\ engine_calls = << >>
  /\ json_files = {}
  /\ csv_files = {}
  /\ master_csv = << >>
  /\ pdf_files = {}
  /\ emails = {}

\* C9: calculate_scores is invoked only with a ResponseSet that answers
\* all nine questions with permitted options; when validation finds a
\* violation the run ends with an error result and nothing is scored,
\* written, rendered or sent.
C9_EngineOnlyOnValidInput ==
  /\ \A i \in 1..Len(engine_calls) : CompleteAndPermitted(engine_calls[i])
  /\ (Validated /\ validate_assessment_json(assessment_data) # << >>) =>
       /\ ReturnedError
       /\ NothingDone

C9_Witness ==
  /\ ReturnedError
  /\ result.error = "Invalid assessment data"
  /\ HasResponses
  /\ Violating(Submitted) # {}
  /\ NothingDone

Persisted(s) ==
  /\ \E f \in json_files : f.scores = s
  /\ \E f \in csv_files : f.scores = s

\* C10: send_email never raises, it returns a boolean (False when SMTP is
\* not configured or sending fails); after a False, process_assessment
\* still returns success with email_sent = False and the scores that were
\* computed and persisted, and the stored records are untouched.
C10_EmailFailureKeepsResult ==
  /\ [][ pc = "send_email" =>
           /\ pc' = "return"
           /\ email_sent' \in BOOLEAN
           /\ ~ smtp_configured => email_sent' = FALSE
           /\ UNCHANGED << scores, json_files, csv_files, master_csv, pdf_files >> ]_vars
  /\ [][ (pc = "return" /\ email_sent = FALSE) =>
           /\ pc' = "done"
           /\ "success" \in DOMAIN result'
           /\ result'.email_sent = FALSE
           /\ result'.scores = calculate_scores(valid_responses)
           /\ Persisted(result'.scores) ]_vars

C10_Witness ==
  /\ ReturnedSuccess
  /\ smtp_configured
  /\ result.email_sent = FALSE
  /\ Persisted(result.scores)

(***************************************************************************)
(* C14: the scores of an accepted ResponseSet.                             *)
(***************************************************************************)
Accepted(r) == DOMAIN r = QuestionNames /\ validate_responses(r).errors = << >>

\* What one permitted option of a question takes from a score.
OptionImpact(q_name, option, field) ==
  IF IsResolvable(scorer.event_impacts, q_name, option)
  THEN scorer.event_impacts[q_name][option][field]
  ELSE 0

\* The least sum of deltas nine permitted answers can reach: per question,
\* the option that takes the most.
RECURSIVE LeastDelta(_, _)
LeastDelta(i, field) ==
  IF i > Len(questions) THEN 0
  ELSE LET q == questions[i]
           least == CHOOSE d \in { OptionImpact(q.name, o, field) : o \in SeqToSet(q.options) } :
                      \A o \in SeqToSet(q.options) : d <= OptionImpact(q.name, o, field)
       IN  least + LeastDelta(i + 1, field)

\* C14: for every ResponseSet validate_responses accepts (all nine
\* questions, permitted options only) calculate_scores yields
\* physical_score >= 77, mental_score >= 87 and insight_score >= 81.0, the
\* tier is Independent or Monitor, and the lower clamp at 0 is not applied
\* (each score is the base score plus its delta).  The per-question minima
\* bound the deltas of every accepted ResponseSet, not only of the checked ones.
C14_AcceptedScoresBoundedBelow ==
  (pc = "scored" /\ Accepted(responses)) =>
    /\ scores.physical_score >= 77
    /\ scores.mental_score >= 87
    /\ scores.insight_score >= 810
    /\ scores.tier \in { "Independent", "Monitor" }
    /\ scores.physical_score = scorer.base_physical_score + scores.physical_delta
    /\ scores.mental_score = scorer.base_mental_score + scores.mental_delta
    /\ scores.physical_delta >= LeastDelta(1, "physical")
    /\ scores.mental_delta >= LeastDelta(1, "mental")
    /\ scorer.base_physical_score + LeastDelta(1, "physical") >= 77
    /\ scorer.base_mental_score + LeastDelta(1, "mental") >= 87

\* The bounds are attained: an accepted ResponseSet scored 77 / 87 / 81.0.
C14_Witness ==
  /\ pc = "scored"
  /\ Accepted(responses)
  /\ scores.physical_score = 77
  /\ scores.mental_score = 87
  /\ scores.insight_score = 810
  /\ scores.tier = "Monitor"

(***************************************************************************)
(* C11: the order of the collaborators of process_assessment.              *)
(***************************************************************************)
\* calculate_scores has returned, once, and scores is what it returned.
EngineReturned ==
  /\ Len(engine_calls) = 1
  /\ scores = calculate_scores(engine_calls[1])

\* A step is about to start only if every earlier step completed.
StartsAfterEarlierSteps ==
  /\ pc = "save_json" => EngineReturned /\ json_files = {}
  /\ pc = "save_csv" => EngineReturned /\ json_files # {} /\ csv_files = {}
  /\ pc = "generate_pdf" =>
       EngineReturned /\ json_files # {} /\ csv_files # {} /\ pdf_files = {}
  /\ pc = "send_email" =>
       EngineReturned /\ json_files # {} /\ csv_files # {} /\ pdf_files # {} /\ emails = {}

\* A collaborator that leaves something behind does so after every earlier
\* one and before every later one, and what it leaves carries the scores.
WritesInOrder ==
  /\ engine_calls' # engine_calls =>
       json_files = {} /\ csv_files = {} /\ pdf_files = {} /\ emails = {}
  /\ json_files' # json_files =>
       /\ EngineReturned /\ csv_files = {} /\ pdf_files = {} /\ emails = {}
       /\ \A f \in json_files' : f.scores = calculate_scores(engine_calls[1])
  /\ (csv_files' # csv_files \/ master_csv' # master_csv) =>
       /\ EngineReturned /\ json_files # {} /\ pdf_files = {} /\ emails = {}
       /\ \A f \in csv_files' : f.scores = calculate_scores(engine_calls[1])
       /\ \A i \in DOMAIN master_csv' :
            master_csv'[i].scores = calculate_scores(engine_calls[1])
  /\ pdf_files' # pdf_files =>
       /\ EngineReturned /\ json_files # {} /\ csv_files # {} /\ emails = {}
       /\ \A f \in pdf_files' : f.scores = calculate_scores(engine_calls[1])
  /\ emails' # emails =>
       /\ EngineReturned /\ json_files # {} /\ csv_files # {} /\ pdf_files # {}
       /\ \A m \in emails' : m.scores = calculate_scores(engine_calls[1])

\* C11: in every run of process_assessment the collaborators run one after
\* the other and only after calculate_scores has returned, in the order
\* JSON persistence, CSV persistence, report rendering, email dispatch;
\* each starts only if every earlier one completed, and each is handed the
\* ScoreResult calculate_scores produced.
C11_CollaboratorsInOrder ==
  /\ [] StartsAfterEarlierSteps
  /\ [][WritesInOrder]_vars

\* A run in which all four collaborators have acted.
C11_Witness ==
  /\ pc = "done"
  /\ json_files # {} /\ csv_files # {} /\ master_csv # << >>
  /\ pdf_files # {} /\ emails # {}
  /\ \A m \in emails : m.scores = calculate_scores(engine_calls[1])

(***************************************************************************)
(* C15: what an error result leaves behind.                                *)
(***************************************************************************)
RaisedAfterJson ==
  /\ ReturnedError
  /\ result.error = "Processing failed"
  /\ result.details \in { "csv write failed", "pdf output failed" }

\* C15: if save_to_csv or generate_pdf raises after save_assessment_json
\* has succeeded, process_assessment returns the "Processing failed" error
\* without scores and no email is sent, while the JSON record (and the CSV
\* record, if it was already written) with the computed scores stays
\* persisted.
C15_ErrorAfterJsonKeepsRecords ==
  RaisedAfterJson =>
    /\ DOMAIN result = { "error", "details" }
    /\ emails = {}
    /\ email_sent = None                \* send_email was never called
    /\ scores = calculate_scores(valid_responses)
    /\ \E f \in json_files : f.scores = scores /\ f.data = assessment_data
    /\ result.details = "csv write failed" => csv_files = {}
    /\ result.details = "pdf output failed" =>
         /\ \E f \in csv_files : f.scores = scores
         /\ pdf_files = {}

\* generate_pdf raised with both records written.
C15_Witness ==
  /\ pc = "done"
  /\ result = ProcessingFailed("pdf output failed")
  /\ json_files # {}
  /\ csv_files # {}
  /\ emails = {}

(***************************************************************************)
(* C16: the identifiers of one assessment.                                 *)
(***************************************************************************)
SuccessIdentifiers ==
  ReturnedSuccess =>
    /\ "assessment_id" \in DOMAIN assessment_data =>
         result.assessment_id = assessment_data["assessment_id"]
    /\ "assessment_id" \notin DOMAIN assessment_data => result.assessment_id = None
    /\ \A f \in json_files : f.assessment_id # result.assessment_id
    /\ \A f \in csv_files : f.assessment_id # result.assessment_id
    /\ \A i \in DOMAIN master_csv : master_csv[i].assessment_id # result.assessment_id
    /\ \A j \in json_files : \A c \in csv_files : j.assessment_id # c.assessment_id
    /\ \A j \in json_files : j.data = assessment_data

\* C16: save_assessment_json writes its identifier, the scores and the
\* timestamp into a copy and leaves the caller's assessment_data as it was
\* (no step of process_assessment changes it); so the assessment_id of the
\* success result is the input's own assessment_id (None when it has none),
\* it is never the identifier of the JSON or the CSV record, and these two
\* records carry different generated identifiers.
C16_ResultIdIsTheInputsOwn ==
  /\ [][assessment_data' = assessment_data]_vars
  /\ [] SuccessIdentifiers

\* A success for an input with its own assessment_id, and one for an input
\* without, are both reached; the first is the witness.
C16_Witness ==
  /\ ReturnedSuccess
  /\ "assessment_id" \in DOMAIN assessment_data
  /\ result.assessment_id = "client-id"
  /\ \E j \in json_files : \E c \in csv_files :
       j.assessment_id = "uuid-1" /\ c.assessment_id = "uuid-2"

(***************************************************************************)
(* calculate_scores called again and again on the one scorer, with         *)
(* ResponseSets drawn anew for every call: nothing, the best and the worst *)
(* answers, a single answer, and an answer next to an unknown key.         *)
(***************************************************************************)
BestCaseResponses == [ q \in QuestionNames |-> OptionsOf(q)[1] ]

RepeatedResponseSets ==
  { EmptyDict,
    BestCaseResponses,
    WorstCaseResponses,
    "fall_risk" :> "High",
    ("fall_risk" :> "Moderate") @@ ("shoe_size" :> "Low") }

InitRepeat ==
  /\ scorer = NewScorer
  /\ pc = "ready"
  /\ scores = None
  /\ EngineIdle
  /\ AdvisorIdle
  /\ FlowIdle
  /\ CallIdle

\* calculate_scores that keeps the scores it computed as the base scores of
\* the next call.
CallCalculateScores_carries_over ==
  /\ pc = "ready"
  /\ Len(engine_calls) < MaxCalls
  /\ \E r \in RepeatedResponseSets :
       /\ responses' = r
       /\ scores' = calculate_scores(r)
       /\ engine_calls' = Append(engine_calls, r)
       /\ engine_returns' = Append(engine_returns, calculate_scores(r))
       /\ scorer' = [ scorer EXCEPT !.base_physical_score = calculate_scores(r).physical_score,
                                    !.base_mental_score = calculate_scores(r).mental_score ]
  /\ UNCHANGED << pc, baseline, advisorVars, assessment_data, smtp_configured,
                  valid_responses, email_sent, result, storeVars, uuid_count, threads >>

\* Lines 201-228: one call, from entry to return.  The method assigns to
\* locals only, so the scorer is as before.
CallCalculateScores ==
  /\ pc = "ready"
  /\ Len(engine_calls) < MaxCalls
  /\ \E r \in RepeatedResponseSets :
       /\ responses' = r
       /\ scores' = calculate_scores(r)
       /\ engine_calls' = Append(engine_calls, r)
       /\ engine_returns' = Append(engine_returns, calculate_scores(r))
  /\ UNCHANGED << pc, scorer, baseline, advisorVars, assessment_data, smtp_configured,
                  valid_responses, email_sent, result, storeVars, uuid_count, threads >>

NextRepeat == CallCalculateScores

SpecRepeat == InitRepeat /\ [][NextRepeat]_vars

\* C12: calculate_scores carries no hidden state between calls.  After any
\* sequence of calls on the same scorer, every call with a given
\* ResponseSet returned what the first call with that ResponseSet returned,
\* and base_physical_score, base_mental_score and event_impacts are still
\* 100, 100 and the initial table.
C12_NoHiddenState ==
  /\ \A i \in DOMAIN engine_returns : \A j \in DOMAIN engine_returns :
       engine_calls[i] = engine_calls[j] => engine_returns[i] = engine_returns[j]
  /\ scorer.base_physical_score = 100
  /\ scorer.base_mental_score = 100
  /\ scorer.event_impacts = event_impacts

\* The worst case scored, something else scored, the worst case scored again.
C12_Witness ==
  /\ Len(engine_returns) = 3
  /\ engine_calls[1] = WorstCaseResponses
  /\ engine_calls[2] = BestCaseResponses
  /\ engine_calls[3] = WorstCaseResponses
  /\ engine_returns[3].physical_score = 77
  /\ engine_returns[3] = engine_returns[1]

(***************************************************************************)
(* Concurrent requests: each thread scores its own assessment on the one   *)
(* scorer (line 607) and then asks for the care plan.  A thread can be     *)
(* preempted anywhere; what it holds in locals is its own, so a step here  *)
(* is one access to the scorer's fields: the entry, one pass of the loop,  *)
(* the return.                                                             *)
(***************************************************************************)
Threads == 1..MaxThreads

ConcurrentResponseSets ==
  { WorstCaseResponses,
    "fall_risk" :> "High",
    ("fall_risk" :> "Moderate") @@ ("shoe_size" :> "Low") }

ConcurrentPreviousTiers == { None, "Independent" }

\* A call that has not started yet.
NewCall(r, previous) ==
  [ pc             |-> "enter",
    responses      |-> r,
    previous_tier  |-> previous,
    todo           |-> {},
    physical_score |-> 0,
    mental_score   |-> 0,
    physical_delta |-> 0,
    mental_delta   |-> 0,
    result         |-> None,
    suggestion     |-> None,
    overlapped     |-> FALSE ]

InitConcurrent ==
  /\ scorer = NewScorer
  /\ pc = "serving"
  /\ scores = None
  /\ EngineIdle
  /\ AdvisorIdle
  /\ FlowIdle
  /\ engine_returns = << >>
  /\ \E rs \in [ Threads -> ConcurrentResponseSets ] :
       \E ps \in [ Threads -> ConcurrentPreviousTiers ] :
         threads = [ t \in Threads |-> NewCall(rs[t], ps[t]) ]

\* Another thread is in the middle of its loop.
OtherInLoop(t) ==
  \E u \in Threads \ {t} :
    /\ threads[u].pc = "loop"
    /\ threads[u].todo # {}
    /\ threads[u].todo # DOMAIN threads[u].responses

ThreadFrame ==
  UNCHANGED << pc, scores, engineVars, advisorVars, flowVars, engine_returns >>

\* Lines 204-207: the base scores are read into locals.
Enter(t) ==
  /\ threads[t].pc = "enter"
  /\ threads' = [ threads EXCEPT ![t] =
       [ @ EXCEPT !.pc = "loop",
                  !.todo = DOMAIN threads[t].responses,
                  !.physical_score = scorer.base_physical_score,
                  !.mental_score = scorer.base_mental_score,
                  !.physical_delta = 0,
                  !.mental_delta = 0 ] ]
  /\ UNCHANGED scorer
  /\ ThreadFrame

\* One pass of the loop that keeps its sums in the scorer's base scores
\* instead of locals.
Iterate_on_scorer(t) ==
  /\ threads[t].pc = "loop"
  /\ threads[t].todo # {}
  /\ LET q == CHOOSE n \in threads[t].todo : TRUE
         known == IsResolvable(scorer.event_impacts, q, threads[t].responses[q])
         impact == IF known THEN scorer.event_impacts[q][threads[t].responses[q]]
                   ELSE Impact(0, 0)
     IN  /\ scorer' = [ scorer EXCEPT
                          !.base_physical_score = @ + impact.physical,
                          !.base_mental_score = @ + impact.mental ]
         /\ threads' = [ threads EXCEPT ![t] =
              [ @ EXCEPT !.todo = @ \ {q},
                         !.physical_delta = scorer'.base_physical_score - 100,
                         !.mental_delta = scorer'.base_mental_score - 100,
                         !.overlapped = @ \/ OtherInLoop(t) ] ]
  /\ ThreadFrame

\* Lines 210-214: one pass of the loop over responses.items().
Iterate(t) ==
  /\ threads[t].pc = "loop"
  /\ threads[t].todo # {}
  /\ LET q == CHOOSE n \in threads[t].todo : TRUE
         known == IsResolvable(scorer.event_impacts, q, threads[t].responses[q])
         impact == IF known THEN scorer.event_impacts[q][threads[t].responses[q]]
                   ELSE Impact(0, 0)
     IN  threads' = [ threads EXCEPT ![t] =
           [ @ EXCEPT !.todo = @ \ {q},
                      !.physical_delta = @ + impact.physical,
                      !.mental_delta = @ + impact.mental,
                      !.overlapped = @ \/ OtherInLoop(t) ] ]
  /\ UNCHANGED scorer
  /\ ThreadFrame

\* Lines 217-228: the loop is over, the result is built and returned.
Finish(t) ==
  /\ threads[t].pc = "loop"
  /\ threads[t].todo = {}
  /\ threads' = [ threads EXCEPT ![t] =
       [ @ EXCEPT !.pc = "advise",
                  !.result = ScoreResult(threads[t].physical_score, threads[t].mental_score,
                                         threads[t].physical_delta, threads[t].mental_delta) ] ]
  /\ UNCHANGED scorer
  /\ ThreadFrame

\* Lines 241-258: get_care_plan_suggestion for the tier just computed.
Advise(t) ==
  /\ threads[t].pc = "advise"
  /\ threads' = [ threads EXCEPT ![t] =
       [ @ EXCEPT !.pc = "done",
                  !.suggestion = get_care_plan_suggestion(
                                   threads[t].result.tier, threads[t].previous_tier) ] ]
  /\ UNCHANGED scorer
  /\ ThreadFrame

NextConcurrent ==
  \E t \in Threads :
    \/ Enter(t)
    \/ Iterate(t)
    \/ Finish(t)
    \/ Advise(t)

SpecConcurrent == InitConcurrent /\ [][NextConcurrent]_vars

\* What a call returns when no other call runs: the scorer as __init__
\* left it, the call from entry to return.
AloneScores(r) == calculate_scores_on(NewScorer, r)

AloneSuggestion(r, previous) ==
  get_care_plan_suggestion(AloneScores(r).tier, previous)

\* C13: when calculate_scores / get_care_plan_suggestion calls for
\* independent assessments interleave on the one shared scorer in any
\* order, each call returns exactly what it returns when run alone, and
\* the shared base scores and event_impacts are never written.
C13_ConcurrentCallsAsAlone ==
  /\ scorer = NewScorer
  /\ \A t \in Threads :
       /\ threads[t].pc \in { "advise", "done" } =>
            threads[t].result = AloneScores(threads[t].responses)
       /\ threads[t].pc = "done" =>
            threads[t].suggestion =
              AloneSuggestion(threads[t].responses, threads[t].previous_tier)

\* Two calls for different assessments have returned, each having run
\* passes of its loop while the other was in the middle of its own.
C13_Witness ==
  /\ \A t \in Threads : threads[t].pc = "done" /\ threads[t].overlapped
  /\ threads[1].responses = WorstCaseResponses
  /\ threads[1].result.physical_score = 77
  /\ threads[2].responses # threads[1].responses

====
